---- MODULE Spec2Model ----
(***************************************************************************)
(* Model of pkg/calendar/calendar.go: the construction of the hour tag    *)
(* table (NewCalendar: parseAndFilterPublicHolidayiCal, then              *)
(* tagAfterhoursAndWeekends) and its lookup (GetHourTag).                 *)
(*                                                                         *)
(* Time.  An instant is a whole number of hours since the epoch, which is *)
(* 00:00 UTC of a Monday; a time.Time is a record [u, m, loc]: the hour   *)
(* of the instant, the minute inside it and the location it is presented  *)
(* in.  A wall clock is the number of hours since Monday 00:00 on the     *)
(* local calendar: wall \div 24 is the calendar day, wall % 24 the hour.  *)
(***************************************************************************)
EXTENDS Integers, Sequences, FiniteSets, TLC

\* ------------------------------------------------------------ bounds
\* The schedule window is 1..MaxDays calendar days long.
MaxDays == 6
\* The schedule window of the lookup specification is 1..MaxLookupDays days long.
MaxLookupDays == 2

\* --------------------------------------------------------- constants
BusinessHour == 1
BusinessAfterHour == 2
WeekendHour == 3
StatHolidayHour == 4

HoursPerDay == 24
\* time.Weekday of the model's calendar: day 0 is a Monday.
Friday == 4
Saturday == 5
Sunday == 6

\* ------------------------------------------------- time.Location
\* A location has a standard offset until the instant T and the offset
\* "after" from T on (both in hours east of UTC); a fixed zone has both equal.
\* The transitions are those of America/Vancouver, on a Sunday (day 6) at
\* 02:00 local: Spring goes from -8 to -7, Fall from -7 to -8.
SpringT == Sunday * HoursPerDay + 2 + 8
FallT == Sunday * HoursPerDay + 2 + 7
UTC == [name |-> "UTC", before |-> 0, after |-> 0, T |-> 0]
Fixed == [name |-> "Etc/GMT+8", before |-> 0 - 8, after |-> 0 - 8, T |-> 0]
East == [name |-> "Etc/GMT-12", before |-> 12, after |-> 12, T |-> 0]
Spring == [name |-> "America/Vancouver (March)", before |-> 0 - 8, after |-> 0 - 7, T |-> SpringT]
Fall == [name |-> "America/Vancouver (November)", before |-> 0 - 7, after |-> 0 - 8, T |-> FallT]
Locations == {UTC, Fixed, East, Spring, Fall}

\* The offset of l in force at the instant u (Location.lookup).
Offset(l, u) == IF u < l.T THEN l.before ELSE l.after

\* The wall clock of a time in its own location.
Wall(t) == t.u + Offset(t.loc, t.u)

\* time.Date(y, m, d, h, 0, 0, 0, l): the instant of the wall clock w in l.
\* Go looks the offset up at w read as UTC, and looks it up again at the
\* resulting instant when that falls in the other period of the zone.
Date(w, l) ==
  LET off1 == Offset(l, w)
      utc == w - off1
      off == IF off1 = 0 \/ ((utc < l.T) <=> (w < l.T)) THEN off1 ELSE Offset(l, utc)
  IN w - off

\* t.Add(d) for a whole number of hours: the instant moves, the location stays.
Add(t, hours) == [t EXCEPT !.u = @ + hours]

\* t.In(l): the same instant presented in l.
In(t, l) == [t EXCEPT !.loc = l]

\* t.Weekday(), Monday = 0.
Weekday(t) == (Wall(t) \div HoursPerDay) % 7

\* FlattenTime: the timestamp without minutes or seconds, rebuilt from its
\* calendar fields in its own location.
FlattenTime(t) == [u |-> Date(Wall(t), t.loc), m |-> 0, loc |-> t.loc]

\* AdjustForTimezone: subtract from the flattened timestamp the offset l has
\* at the flattened instant, and present the result in l.
AdjustForTimezone(t, l) ==
  LET flatTime == FlattenTime(t)
      tzOffset == Offset(l, In(flatTime, l).u)
  IN In(Add(flatTime, 0 - tzOffset), l)

\* t.Format(time.RFC3339): date, hour, minute and the offset in force.
RFC3339(t) == <<Wall(t), t.m, Offset(t.loc, t.u)>>

\* t.Format(YmdHis): date, hour and minute, no offset.
YmdHis(t) == <<Wall(t), t.m>>

\* ------------------------------------------------- timerange.TimeRange
\* timerange.New(start, end, interval) with Next/Current: the iterator yields
\* start, start+interval, ... up to and including end (the callers subtract
\* an hour from an exclusive end: lines 116 and 159-162).  A range is the
\* record of the value Next will yield and of the end.
TimeRangeNew(start, end) == [next |-> start, end |-> end]
TimeRangeHasNext(r) == r.next.u <= r.end.u
TimeRangeAdvance(r, hours) == [r EXCEPT !.next = Add(@, hours)]
NoRange == [next |-> [u |-> 1, m |-> 0, loc |-> UTC], end |-> [u |-> 0, m |-> 0, loc |-> UTC]]

\* The days of the window: fStartDate, +24h, ... up to and including fEndDate.
RECURSIVE DaysOfRange(_)
DaysOfRange(r) ==
  IF TimeRangeHasNext(r)
  THEN <<r.next>> \o DaysOfRange(TimeRangeAdvance(r, HoursPerDay))
  ELSE <<>>

\* ------------------------------------------------- configuration and feed
\* ScheduleConfig.Holidays: the whitelist of event names.
Holidays == <<"Victoria Day", "Canada Day">>

\* ScheduleConfig.BusinessHours, as the hours GetBusinessHours' results give.
BusinessHoursChoices == {<<9, 18>>, <<8, 17>>}

\* The shapes of a feed event: an all-day event (midnight to next midnight)
\* and a part-day event whose start and end are not on the hour.
AllDay == [s |-> 0, sm |-> 0, e |-> HoursPerDay, em |-> 0]
PartDay == [s |-> 8, sm |-> 30, e |-> 12, em |-> 30]

\* An event of the feed on calendar day d; the parser gives its times in UTC.
Event(name, d, shape) ==
  [summary |-> name,
   start |-> [u |-> d * HoursPerDay + shape.s, m |-> shape.sm, loc |-> UTC],
   end |-> [u |-> d * HoursPerDay + shape.e, m |-> shape.em, loc |-> UTC]]

\* The feeds tried for a window of n days starting on day sd.
Feeds(sd, n) ==
  {<<>>}
  \cup {<<Event("Victoria Day", d, sh)>> : d \in sd..(sd + n), sh \in {AllDay, PartDay}}
  \cup {<<Event("Daylight Saving begins", d, AllDay)>> : d \in sd..(sd + n)}
  \cup {<<Event("Victoria Day", sd, AllDay), Event("Daylight Saving begins", sd, PartDay)>>,
        <<Event("Daylight Saving begins", sd, AllDay), Event("Victoria Day", sd, PartDay)>>}

\* ------------------------------------------------------------ state
VARIABLES
  CalStart,       \* Calendar.CalStart
  CalEnd,         \* Calendar.CalEnd
  CalDays,        \* Calendar.CalDays
  CalendarHours,  \* Calendar.CalendarHours: RFC3339 key -> tag
  CalTimezone,    \* Calendar.CalTimezone = ScheduleConfig.ParsedTimezone
  bStart,         \* GetBusinessHours().start.Hour()
  bEnd,           \* GetBusinessHours().end.Hour()
  feed,           \* the events of the parsed calendar
  pc,             \* where the construction stands
  i,              \* index of the day being processed in CalDays
  j,              \* index of the event being processed among the day's events
  tr,             \* the hour range being iterated
  lastWrite,      \* the last addHour: its key, tag, pass and day index
  eventKeys,      \* the keys the event being processed has written
  cursor,         \* the hour the caller asks about next
  lastQuery       \* the last GetHourTag call: its argument and its result

vars == <<CalStart, CalEnd, CalDays, CalendarHours, CalTimezone, bStart, bEnd, feed,
          pc, i, j, tr, lastWrite, eventKeys, cursor, lastQuery>>

config == <<CalStart, CalEnd, CalDays, CalTimezone, bStart, bEnd, feed>>

NoWrite == [pass |-> 0, key |-> <<0, 0, 0>>, tag |-> 0, day |-> 0]
NoQuery == [asked |-> FALSE, h |-> [u |-> 0, m |-> 0, loc |-> UTC], tag |-> 0]
\* The minutes a queried timestamp may carry.
Minutes == {0, 30}

\* Calendar.GetEventsByDates()[key]: the events that start on that day.
EventsByDates(key) ==
  SelectSeq(feed, LAMBDA e :
    <<(Wall(e.start) \div HoursPerDay) * HoursPerDay, 0>> = key)

\* filterEvent: exact membership in the whitelist.
filterEvent(eventName) == \E h \in 1..Len(Holidays) : Holidays[h] = eventName

\* addHour: one entry per key, the last write wins.
addHour(hours, hourStart, hourType) ==
  [k \in DOMAIN hours \cup {RFC3339(hourStart)} |->
     IF k = RFC3339(hourStart) THEN hourType ELSE hours[k]]

\* c.CalendarHours[key] of Go: the zero value for a missing key.
MapGet(hours, key) == IF key \in DOMAIN hours THEN hours[key] ELSE 0

\* GetHourTag: the entry of h's own RFC3339 text, BusinessHour without one.
GetHourTag(h) ==
  IF RFC3339(h) \in DOMAIN CalendarHours THEN CalendarHours[RFC3339(h)] ELSE BusinessHour

\* ------------------------------------------------------------ Init
\* NewCalendar up to line 66, called as main does: startDate is midnight of
\* a day in the location, endDate midnight of a later day.
Construct(maxDays) ==
  \E l \in Locations, sd \in 0..Sunday, n \in 1..maxDays, bh \in BusinessHoursChoices :
    LET startDate == [u |-> Date(sd * HoursPerDay, l), m |-> 0, loc |-> l]
        endDate == [u |-> Date((sd + n) * HoursPerDay, l), m |-> 0, loc |-> l]
    IN /\ CalTimezone = l
       /\ CalStart = FlattenTime(startDate)
       /\ CalEnd = FlattenTime(endDate)
       /\ CalDays = DaysOfRange(TimeRangeNew(FlattenTime(startDate), FlattenTime(endDate)))
       /\ CalendarHours = <<>>
       /\ bStart = bh[1]
       /\ bEnd = bh[2]
       /\ feed \in Feeds(sd, n)
       /\ pc = "holidayDay"
       /\ i = 1
       /\ j = 1
       /\ tr = NoRange
       /\ lastWrite = NoWrite
       /\ eventKeys = {}
       /\ cursor = FlattenTime(startDate)
       /\ lastQuery = NoQuery

Init == Construct(MaxDays)

InitLookup == Construct(MaxLookupDays)

\* ------------------------------------------- parseAndFilterPublicHolidayiCal
\* The events listed under the day CalDays[i] (lines 105-106).
DayEvents ==
  LET schedDay == FlattenTime(CalDays[i])
  IN EventsByDates(YmdHis(schedDay))

\* Lines 104-109: a day the feed lists no event for is skipped.
HolidayDayWithoutEvents ==
  /\ pc = "holidayDay"
  /\ i <= Len(CalDays)
  /\ DayEvents = <<>>
  /\ i' = i + 1
  /\ UNCHANGED <<config, CalendarHours, pc, j, tr, lastWrite, eventKeys, cursor, lastQuery>>

\* Lines 106-110: a day with events, the first one is looked at next.
HolidayDayWithEvents ==
  /\ pc = "holidayDay"
  /\ i <= Len(CalDays)
  /\ DayEvents # <<>>
  /\ pc' = "holidayEvent"
  /\ j' = 1
  /\ UNCHANGED <<config, CalendarHours, i, tr, lastWrite, eventKeys, cursor, lastQuery>>

\* Line 112: an event whose summary is not whitelisted is ignored.
HolidayEventRejected ==
  /\ pc = "holidayEvent"
  /\ j <= Len(DayEvents)
  /\ ~filterEvent(DayEvents[j].summary)
  /\ j' = j + 1
  /\ UNCHANGED <<config, CalendarHours, pc, i, tr, lastWrite, eventKeys, cursor, lastQuery>>

\* Lines 112-116: a whitelisted event, its hours run from the flattened start
\* to one hour before the flattened end.
HolidayEventAccepted ==
  /\ pc = "holidayEvent"
  /\ j <= Len(DayEvents)
  /\ filterEvent(DayEvents[j].summary)
  /\ LET eventFlatStart == FlattenTime(DayEvents[j].start)
         eventFlatEnd == FlattenTime(DayEvents[j].end)
     IN tr' = TimeRangeNew(eventFlatStart, Add(eventFlatEnd, 0 - 1))
  /\ eventKeys' = {}
  /\ pc' = "holidayHour"
  /\ UNCHANGED <<config, CalendarHours, i, j, lastWrite, cursor, lastQuery>>

\* Lines 117-120: one hour of the event is adjusted and tagged.
HolidayHour ==
  /\ pc = "holidayHour"
  /\ TimeRangeHasNext(tr)
  /\ LET adjustedTime == AdjustForTimezone(tr.next, CalTimezone)
     IN /\ CalendarHours' = addHour(CalendarHours, adjustedTime, StatHolidayHour)
        /\ lastWrite' = [pass |-> 1, key |-> RFC3339(adjustedTime),
                         tag |-> StatHolidayHour, day |-> i]
        /\ eventKeys' = eventKeys \cup {RFC3339(adjustedTime)}
  /\ tr' = TimeRangeAdvance(tr, 1)
  /\ UNCHANGED <<config, pc, i, j, cursor, lastQuery>>

\* Line 117, the range is exhausted: the next event of the day.
HolidayEventDone ==
  /\ pc = "holidayHour"
  /\ ~TimeRangeHasNext(tr)
  /\ pc' = "holidayEvent"
  /\ j' = j + 1
  /\ UNCHANGED <<config, CalendarHours, i, tr, lastWrite, eventKeys, cursor, lastQuery>>

\* Line 110, the day's events are exhausted: the next day.
HolidayDayDone ==
  /\ pc = "holidayEvent"
  /\ j > Len(DayEvents)
  /\ pc' = "holidayDay"
  /\ i' = i + 1
  /\ UNCHANGED <<config, CalendarHours, j, tr, lastWrite, eventKeys, cursor, lastQuery>>

\* Lines 125 and 71: every day is done, tagAfterhoursAndWeekends starts.
HolidaysDone ==
  /\ pc = "holidayDay"
  /\ i > Len(CalDays)
  /\ pc' = "tagDay"
  /\ i' = 1
  /\ UNCHANGED <<config, CalendarHours, j, tr, lastWrite, eventKeys, cursor, lastQuery>>

\* --------------------------------------------------- tagAfterhoursAndWeekends
\* The write without its guard: the tag replaces whatever the hour holds.
TagWhateverIsThere(hours, hour, hourType) ==
  addHour(hours, FlattenTime(hour), hourType)

\* The guarded write of lines 146-148, 155-157, 164-166 and 171-173: the
\* flattened hour gets hourType unless it holds StatHolidayHour.
TagUnlessHoliday(hours, hour, hourType) ==
  IF MapGet(hours, RFC3339(FlattenTime(hour))) # StatHolidayHour
  THEN addHour(hours, FlattenTime(hour), hourType)
  ELSE hours

\* One iteration of a loop of the second pass.
TagHour(hourType) ==
  /\ TimeRangeHasNext(tr)
  /\ CalendarHours' = TagUnlessHoliday(CalendarHours, tr.next, hourType)
  /\ lastWrite' = IF MapGet(CalendarHours, RFC3339(FlattenTime(tr.next))) # StatHolidayHour
                  THEN [pass |-> 2, key |-> RFC3339(FlattenTime(tr.next)),
                        tag |-> hourType, day |-> i]
                  ELSE lastWrite
  /\ tr' = TimeRangeAdvance(tr, 1)
  /\ UNCHANGED <<config, pc, i, j, eventKeys, cursor, lastQuery>>

\* Lines 142-144: a Saturday or a Sunday, every hour from day to day+24h.
TagWeekendDay ==
  /\ pc = "tagDay"
  /\ i <= Len(CalDays)
  /\ Weekday(CalDays[i]) \in {Saturday, Sunday}
  /\ tr' = TimeRangeNew(CalDays[i], Add(CalDays[i], HoursPerDay))
  /\ pc' = "tagWeekend"
  /\ UNCHANGED <<config, CalendarHours, i, j, lastWrite, eventKeys, cursor, lastQuery>>

\* Lines 145-149.
TagWeekendHour ==
  /\ pc = "tagWeekend"
  /\ TagHour(WeekendHour)

\* Line 150: continue with the next day.
TagWeekendDone ==
  /\ pc = "tagWeekend"
  /\ ~TimeRangeHasNext(tr)
  /\ pc' = "tagDay"
  /\ i' = i + 1
  /\ UNCHANGED <<config, CalendarHours, j, tr, lastWrite, eventKeys, cursor, lastQuery>>

\* Lines 152-153: a weekday, the hours from day to day+bStart.
TagWeekday ==
  /\ pc = "tagDay"
  /\ i <= Len(CalDays)
  /\ Weekday(CalDays[i]) \notin {Saturday, Sunday}
  /\ tr' = TimeRangeNew(CalDays[i], Add(CalDays[i], bStart))
  /\ pc' = "tagMorning"
  /\ UNCHANGED <<config, CalendarHours, i, j, lastWrite, eventKeys, cursor, lastQuery>>

\* Lines 154-158.
TagMorningHour ==
  /\ pc = "tagMorning"
  /\ TagHour(BusinessAfterHour)

\* The end of the evening range: day+23h, and day+24h on a Friday
\* (lines 162 and 169).
EveningEnd(day) ==
  IF Weekday(day) # Friday THEN Add(day, 23) ELSE Add(day, HoursPerDay)

\* Lines 161-162 and 168-169: the hours from day+bEnd on.
TagMorningDone ==
  /\ pc = "tagMorning"
  /\ ~TimeRangeHasNext(tr)
  /\ tr' = TimeRangeNew(Add(CalDays[i], bEnd), EveningEnd(CalDays[i]))
  /\ pc' = "tagEvening"
  /\ UNCHANGED <<config, CalendarHours, i, j, lastWrite, eventKeys, cursor, lastQuery>>

\* The tag of the evening hours: after-hours, weekend on a Friday
\* (lines 165 and 172).
EveningTag(day) ==
  IF Weekday(day) # Friday THEN BusinessAfterHour ELSE WeekendHour

\* Lines 163-167 and 170-174.
TagEveningHour ==
  /\ pc = "tagEvening"
  /\ TagHour(EveningTag(CalDays[i]))

\* Line 176: the next day.
TagEveningDone ==
  /\ pc = "tagEvening"
  /\ ~TimeRangeHasNext(tr)
  /\ pc' = "tagDay"
  /\ i' = i + 1
  /\ UNCHANGED <<config, CalendarHours, j, tr, lastWrite, eventKeys, cursor, lastQuery>>

\* Lines 72-73: NewCalendar returns the calendar.
TagDone ==
  /\ pc = "tagDay"
  /\ i > Len(CalDays)
  /\ pc' = "done"
  /\ UNCHANGED <<config, CalendarHours, i, j, tr, lastWrite, eventKeys, cursor, lastQuery>>

\* ------------------------------------------------------------ GetHourTag
\* The caller walks the hours of the window, and of the day after it, and
\* asks for the tag of a timestamp inside each.
Query ==
  /\ pc = "done"
  /\ cursor.u < CalEnd.u + HoursPerDay
  /\ \E m \in Minutes :
       LET h == [cursor EXCEPT !.m = m]
       IN lastQuery' = [asked |-> TRUE, h |-> h, tag |-> GetHourTag(h)]
  /\ cursor' = Add(cursor, 1)
  /\ UNCHANGED <<config, CalendarHours, pc, i, j, tr, lastWrite, eventKeys>>

\* NewCalendar: the two passes, in order.
Next ==
  \/ HolidayDayWithoutEvents
  \/ HolidayDayWithEvents
  \/ HolidayEventRejected
  \/ HolidayEventAccepted
  \/ HolidayHour
  \/ HolidayEventDone
  \/ HolidayDayDone
  \/ HolidaysDone
  \/ TagWeekendDay
  \/ TagWeekendHour
  \/ TagWeekendDone
  \/ TagWeekday
  \/ TagMorningHour
  \/ TagMorningDone
  \/ TagEveningHour
  \/ TagEveningDone
  \/ TagDone

Spec == Init /\ [][Next]_vars

\* NewCalendar, then the caller's lookups.
NextLookup ==
  \/ Next
  \/ Query

SpecLookup == InitLookup /\ [][NextLookup]_vars

\* ------------------------------------------------------------ vocabulary
\* An hour start presented in the schedule's timezone.
At(u) == [u |-> u, m |-> 0, loc |-> CalTimezone]

\* The calendar day and the hour of the day of a wall clock.
DayOf(w) == w \div HoursPerDay
HourOf(w) == w % HoursPerDay

\* The instants looked at: from a day before the window to two days after it.
Instants == (CalStart.u - HoursPerDay)..(CalEnd.u + 2 * HoursPerDay)

\* The calendar days of the Schedule Window: start inclusive, end exclusive.
WindowDays == DayOf(Wall(CalStart))..(DayOf(Wall(CalEnd)) - 1)

\* The hours (instants) of calendar day d in the schedule's timezone.
HoursOfDay(d) == {u \in Instants : DayOf(Wall(At(u))) = d}

\* The whitelisted events of the feed on a day of the window.
HolidayEvents ==
  {feed[k] : k \in {n \in 1..Len(feed) :
     filterEvent(feed[n].summary) /\ DayOf(Wall(feed[n].start)) \in WindowDays}}

\* The hour u belongs to a whitelisted event: its wall clock in the schedule's
\* timezone lies in the event's own wall-clock hours.
IsHolidayHour(u) ==
  \E e \in HolidayEvents :
     /\ Wall(FlattenTime(e.start)) <= Wall(At(u))
     /\ Wall(At(u)) < Wall(FlattenTime(e.end))

Built == pc = "done"

\* The hour of the day and the weekday of the hour u in the schedule's timezone.
HourAt(u) == HourOf(Wall(At(u)))
WeekdayOf(d) == d % 7

\* The instant an RFC3339 key denotes: its wall clock less its offset.
KeyInstant(key) == key[1] - key[3]

\* ------------------------------------------------------------ claims

\* C1: once both passes have run, every hour of a window day that belongs to
\* a whitelisted holiday event is tagged StatHolidayHour, whatever the weekday
\* and the business hours.
C1_HolidayPrecedence ==
  Built => \A d \in WindowDays : \A u \in HoursOfDay(d) :
    IsHolidayHour(u) => GetHourTag(At(u)) = StatHolidayHour

\* C2: on a Monday-Thursday of the window, every non-holiday hour before the
\* business start or from the business end on, hour 23 included, is tagged
\* BusinessAfterHour.
C2_WeekdayAfterHours ==
  Built => \A d \in WindowDays : \A u \in HoursOfDay(d) :
    (/\ WeekdayOf(d) < Friday
     /\ ~IsHolidayHour(u)
     /\ (HourAt(u) < bStart \/ HourAt(u) >= bEnd))
    => GetHourTag(At(u)) = BusinessAfterHour

\* C3: on a Monday-Friday of the window, a non-holiday hour h with
\* bStart <= h < bEnd has no entry in CalendarHours and GetHourTag returns
\* BusinessHour for it.
C3_BusinessHoursUntagged ==
  Built => \A d \in WindowDays : \A u \in HoursOfDay(d) :
    (/\ WeekdayOf(d) <= Friday
     /\ ~IsHolidayHour(u)
     /\ bStart <= HourAt(u)
     /\ HourAt(u) < bEnd)
    => /\ RFC3339(At(u)) \notin DOMAIN CalendarHours
       /\ GetHourTag(At(u)) = BusinessHour

\* C4: on a Friday of the window, the non-holiday hours from the business end
\* to hour 23 are tagged WeekendHour, and those before the business start
\* BusinessAfterHour.
C4_FridayEvening ==
  Built => \A d \in WindowDays : \A u \in HoursOfDay(d) :
    (WeekdayOf(d) = Friday /\ ~IsHolidayHour(u))
    => /\ HourAt(u) >= bEnd => GetHourTag(At(u)) = WeekendHour
       /\ HourAt(u) < bStart => GetHourTag(At(u)) = BusinessAfterHour

\* C5: on a Saturday or Sunday of the window, every hour that is not tagged
\* StatHolidayHour is tagged WeekendHour.
C5_WeekendCoverage ==
  Built => \A d \in WindowDays : \A u \in HoursOfDay(d) :
    (WeekdayOf(d) \in {Saturday, Sunday} /\ GetHourTag(At(u)) # StatHolidayHour)
    => GetHourTag(At(u)) = WeekendHour

\* C6: when the first pass has gone through a whitelisted event of a window
\* day, the keys it tagged are those of the adjusted hours from the flattened
\* start up to, and without, the flattened end; so an all-day event tags
\* every hour of its day and not hour 0 of the next day.
EventDone == pc = "holidayHour" /\ ~TimeRangeHasNext(tr)
C6_EventHours ==
  (EventDone /\ DayOf(Wall(DayEvents[j].start)) \in WindowDays) =>
    LET e == DayEvents[j]
        d == DayOf(Wall(e.start))
        first == FlattenTime(e.start)
        last == FlattenTime(e.end)
        Adjusted(H) == RFC3339(AdjustForTimezone([first EXCEPT !.u = H], CalTimezone))
    IN /\ eventKeys = {Adjusted(H) : H \in first.u..(last.u - 1)}
       /\ Adjusted(last.u) \notin eventKeys
       /\ (first.u = d * HoursPerDay /\ last.u = (d + 1) * HoursPerDay)
          => /\ \A u \in HoursOfDay(d) : RFC3339(At(u)) \in eventKeys
             /\ \A u \in HoursOfDay(d + 1) : RFC3339(At(u)) \notin eventKeys

\* C7: GetHourTag answers for the start of its argument's hour: the entry
\* of the flattened timestamp, BusinessHour without one.
C7_LookupFlattens ==
  lastQuery.asked => lastQuery.tag = GetHourTag(FlattenTime(lastQuery.h))

\* C8: the adjusted time of an event hour has, in the schedule's timezone,
\* the wall-clock date and hour the event hour has in the feed, on the days
\* of an offset change too.
C8_AdjustKeepsWallClock ==
  (pc = "holidayHour" /\ eventKeys # {})
  => lastWrite.key[1] = Wall(Add(tr.next, 0 - 1))

\* C9: a key that holds StatHolidayHour holds it in every later state of the
\* construction: no write of the second pass replaces it.
C9_HolidayNeverOverwritten ==
  [][\A k \in DOMAIN CalendarHours :
       CalendarHours[k] = StatHolidayHour
       => (k \in DOMAIN CalendarHours' /\ CalendarHours'[k] = StatHolidayHour)]_vars

\* C9's case: the second pass has gone over a Saturday or Sunday of the
\* window that holds a holiday hour, and the hour still holds its tag.
C9_Witness ==
  /\ Built
  /\ \E k \in DOMAIN CalendarHours :
       /\ CalendarHours[k] = StatHolidayHour
       /\ WeekdayOf(DayOf(k[1])) \in {Saturday, Sunday}
       /\ DayOf(k[1]) \in WindowDays

\* C10: a key the second pass writes is an hour of the window (start
\* inclusive, end exclusive) and an hour 0..23 of the day being processed.
C10_WritesInsideDay ==
  lastWrite.pass = 2 =>
    /\ CalStart.u <= KeyInstant(lastWrite.key)
    /\ KeyInstant(lastWrite.key) < CalEnd.u
    /\ DayOf(lastWrite.key[1]) = DayOf(Wall(CalDays[lastWrite.day]))

\* ------------------------------------------- locations without offset change
\* What C1, C2, C4 and C5 state holds of the windows of a location whose
\* offset never changes: there the days of CalDays are calendar midnights.
ConstantOffset == CalTimezone.before = CalTimezone.after
HolidayPrecedenceAtConstantOffset == ConstantOffset => C1_HolidayPrecedence
WeekdayAfterHoursAtConstantOffset == ConstantOffset => C2_WeekdayAfterHours
FridayEveningAtConstantOffset == ConstantOffset => C4_FridayEvening
WeekendCoverageAtConstantOffset == ConstantOffset => C5_WeekendCoverage
EventHoursAtConstantOffset == ConstantOffset => C6_EventHours

====
